---- MODULE Spec2Model ----
(***************************************************************************)
(* Model of the SSAFY meal-menu tool server (src/src/bob_server/server.py): *)
(* the get_meal_menu tool handler, the GetMealMenuArgs date validator and   *)
(* the fetch_data_from_url adapter it calls.                                *)
(*                                                                          *)
(* Python strings are sequences of one-character strings, so that strip,    *)
(* upper, replace, strptime and string comparison are computed character by *)
(* character.  The source's Korean and emoji literals cannot be written in  *)
(* a TLA+ string; each is one multi-character ASCII token standing for the  *)
(* literal (no input character is a multi-character token, so a literal is  *)
(* never confused with input text).                                         *)
(***************************************************************************)
EXTENDS Integers, Sequences, FiniteSets, TLC

\* upstream: the data source behind fetch_data_from_url, [status, body]; the
\*           adapter hands out body itself, so what a call writes into the
\*           feed is there for the next call
\* query:    the raw arguments of the calls made so far (one query is
\*           repeated on a feed object)
\* out:      what the latest call of get_meal_menu ended in
\* prev:     what the call before it ended in
\* before:   the dict the latest call got from fetch_data_from_url, as it
\*           was when the call began (history variable)
VARIABLES upstream, query, out, prev, before

vars == <<upstream, query, out, prev, before>>

(***************************************************************************)
(* Bounds of the model.                                                     *)
(***************************************************************************)
\* A feed holds at most MaxSize JSON nodes: its date keys plus the entries
\* of all its day lists.
MaxSize == 3

(***************************************************************************)
(* Characters and Python str methods.                                       *)
(***************************************************************************)
Digits == <<"0", "1", "2", "3", "4", "5", "6", "7", "8", "9">>

LowerLetters ==
    <<"a", "b", "c", "d", "e", "f", "g", "h", "i", "j", "k", "l", "m",
      "n", "o", "p", "q", "r", "s", "t", "u", "v", "w", "x", "y", "z">>

UpperLetters ==
    <<"A", "B", "C", "D", "E", "F", "G", "H", "I", "J", "K", "L", "M",
      "N", "O", "P", "Q", "R", "S", "T", "U", "V", "W", "X", "Y", "Z">>

\* The characters of the model in code-point order (Python compares str by
\* code point).
CodePoints ==
    <<"\n", " ", "'", ",", "-", "/">> \o Digits \o <<":">> \o UpperLetters
        \o <<"_">> \o LowerLetters

Ord(c) == CHOOSE i \in 1..Len(CodePoints) : CodePoints[i] = c

IsDigit(c) == \E i \in 1..Len(Digits) : Digits[i] = c

DigitVal(c) == (CHOOSE i \in 1..Len(Digits) : Digits[i] = c) - 1

IsSpace(c) == c \in {" ", "\n"}

\* str.upper(), one character
UpperChar(c) ==
    IF \E i \in 1..26 : LowerLetters[i] = c
    THEN UpperLetters[CHOOSE i \in 1..26 : LowerLetters[i] = c]
    ELSE c

\* str.lower(), one character
LowerChar(c) ==
    IF \E i \in 1..26 : UpperLetters[i] = c
    THEN LowerLetters[CHOOSE i \in 1..26 : UpperLetters[i] = c]
    ELSE c

Upper(s) == [i \in 1..Len(s) |-> UpperChar(s[i])]

Lower(s) == [i \in 1..Len(s) |-> LowerChar(s[i])]

RECURSIVE LStrip(_)
LStrip(s) ==
    IF s # <<>> /\ IsSpace(Head(s)) THEN LStrip(Tail(s)) ELSE s

RECURSIVE RStrip(_)
RStrip(s) ==
    IF s # <<>> /\ IsSpace(s[Len(s)])
    THEN RStrip(SubSeq(s, 1, Len(s) - 1))
    ELSE s

\* str.strip()
Strip(s) == RStrip(LStrip(s))

\* a < b for two str (lexicographic by code point)
RECURSIVE StrLess(_, _)
StrLess(a, b) ==
    IF b = <<>> THEN FALSE
    ELSE IF a = <<>> THEN TRUE
    ELSE IF Head(a) = Head(b) THEN StrLess(Tail(a), Tail(b))
    ELSE Ord(Head(a)) < Ord(Head(b))

\* s * n for a one-character str s
Rep(c, n) == [i \in 1..n |-> c]

\* whether needle occurs in hay (Python's `needle in hay` for str)
Contains(hay, needle) ==
    \E i \in 0..(Len(hay) - Len(needle)) :
        SubSeq(hay, i + 1, i + Len(needle)) = needle

(***************************************************************************)
(* datetime.strptime(date_str, "%Y-%m-%d") and date.weekday(), line 113-114 *)
(***************************************************************************)
\* %m: the regular expression 1[0-2]|0[1-9]|[1-9]; the number of characters
\* its first matching alternative takes at the head of r (0: no match)
MonthMatchLen(r) ==
    IF Len(r) >= 2 /\ r[1] = "1" /\ r[2] \in {"0", "1", "2"} THEN 2
    ELSE IF Len(r) >= 2 /\ r[1] = "0" /\ IsDigit(r[2]) /\ r[2] # "0" THEN 2
    ELSE IF Len(r) >= 1 /\ IsDigit(r[1]) /\ r[1] # "0" THEN 1
    ELSE 0

\* %d: the regular expression 3[0-1]|[1-2]\d|0[1-9]|[1-9]| [1-9]
DayMatchLen(r) ==
    IF Len(r) >= 2 /\ r[1] = "3" /\ r[2] \in {"0", "1"} THEN 2
    ELSE IF Len(r) >= 2 /\ r[1] \in {"1", "2"} /\ IsDigit(r[2]) THEN 2
    ELSE IF Len(r) >= 2 /\ r[1] = "0" /\ IsDigit(r[2]) /\ r[2] # "0" THEN 2
    ELSE IF Len(r) >= 1 /\ IsDigit(r[1]) /\ r[1] # "0" THEN 1
    ELSE IF Len(r) >= 2 /\ r[1] = " " /\ IsDigit(r[2]) /\ r[2] # "0" THEN 2
    ELSE 0

\* int() of a str of decimal digits (and spaces, which %d's last
\* alternative lets through)
RECURSIVE IntOf(_)
IntOf(s) ==
    IF s = <<>> THEN 0
    ELSE IF s[Len(s)] = " " THEN IntOf(SubSeq(s, 1, Len(s) - 1))
    ELSE 10 * IntOf(SubSeq(s, 1, Len(s) - 1)) + DigitVal(s[Len(s)])

IsLeap(y) == (y % 4 = 0) /\ ((y % 100 # 0) \/ (y % 400 = 0))

DaysInMonth(y, m) ==
    IF m = 2 THEN (IF IsLeap(y) THEN 29 ELSE 28)
    ELSE IF m \in {4, 6, 9, 11} THEN 30
    ELSE 31

RECURSIVE DaysBeforeMonth(_, _)
DaysBeforeMonth(y, m) ==
    IF m = 1 THEN 0 ELSE DaysBeforeMonth(y, m - 1) + DaysInMonth(y, m - 1)

DaysBeforeYear(y) ==
    (y - 1) * 365 + ((y - 1) \div 4) - ((y - 1) \div 100) + ((y - 1) \div 400)

\* date.toordinal(): 0001-01-01 is day 1
ToOrdinal(y, m, d) == DaysBeforeYear(y) + DaysBeforeMonth(y, m) + d

\* date.weekday(): Monday is 0
Weekday(y, m, d) == (ToOrdinal(y, m, d) + 6) % 7

\* datetime.strptime(s, "%Y-%m-%d"): ok is FALSE where it raises ValueError
\* (no match of the format, unconverted data remains, year 0, day out of
\* range for the month)
StrpTime(s) ==
    LET bad == [ok |-> FALSE, y |-> 0, m |-> 0, d |-> 0]
    IN  IF ~(Len(s) >= 5 /\ (\A i \in 1..4 : IsDigit(s[i])) /\ s[5] = "-")
        THEN bad
        ELSE
          LET r1 == SubSeq(s, 6, Len(s))
              ml == MonthMatchLen(r1)
          IN  IF ml = 0 \/ Len(r1) < ml + 1 \/ r1[ml + 1] # "-" THEN bad
              ELSE
                LET r2 == SubSeq(r1, ml + 2, Len(r1))
                    dl == DayMatchLen(r2)
                    y  == IntOf(SubSeq(s, 1, 4))
                    m  == IntOf(SubSeq(r1, 1, ml))
                    d  == IntOf(SubSeq(r2, 1, dl))
                IN  IF dl = 0 \/ dl # Len(r2) THEN bad
                    ELSE IF y < 1 \/ d > DaysInMonth(y, m) THEN bad
                    ELSE [ok |-> TRUE, y |-> y, m |-> m, d |-> d]

\* The weekday table of line 114, index 0..6 from Monday; each token stands
\* for the Korean day name at that index.
DayNames ==
    <<"(Mon-yoil)", "(Tue-yoil)", "(Wed-yoil)", "(Thu-yoil)",
      "(Fri-yoil)", "(Sat-yoil)", "(Sun-yoil)">>

(***************************************************************************)
(* JSON values.  A field value or a date's value is [t, s]: its JSON type   *)
(* and, for a str or a number, its text.  "absent" is a key the dict does   *)
(* not have.  A day list is [t |-> "list", items |-> its entries]; an entry *)
(* is [t, floor, type, name], t = "dict" for a record.                      *)
(***************************************************************************)
Null == [t |-> "null", s |-> <<>>]

Absent == [t |-> "absent", s |-> <<>>]

Str(s) == [t |-> "str", s |-> s]

Num(s) == [t |-> "num", s |-> s]

\* bool(v) for a field value: None, "" and 0 are false
Truthy(v) ==
    CASE v.t = "str" -> v.s # <<>>
      [] v.t = "num" -> v.s # <<"0">>
      [] OTHER -> FALSE

\* str(v), as an f-string formats a value
Fmt(v) ==
    CASE v.t = "str" -> v.s
      [] v.t = "num" -> v.s
      [] OTHER -> <<"N", "o", "n", "e">>

DayList(items) == [t |-> "list", s |-> <<>>, items |-> items]

DayScalar(v) == [t |-> v.t, s |-> v.s, items |-> <<>>]

\* line 120 as `if daily_data is None`
DayIsNotNone(v) == v.t # "null"

\* bool(daily_data): None, "", 0 and [] are false
DayTruthy(v) == IF v.t = "list" THEN v.items # <<>> ELSE Truthy(v)

Record(floor, type, name) ==
    [t |-> "dict", floor |-> floor, type |-> type, name |-> name]

\* a list item that is no dict (here a JSON string)
NonRecord == [t |-> "str", floor |-> Absent, type |-> Absent, name |-> Absent]

\* dict.get(key): None where the key is absent
EntryGet(meal, key) == IF meal[key].t = "absent" THEN Null ELSE meal[key]

\* dict.get(key, default)
EntryGetDefault(meal, key, default) ==
    IF meal[key].t = "absent" THEN default ELSE meal[key]

\* A feed (a Python dict in insertion order) is a sequence of
\* [key, val] with distinct keys.
HasKey(d, k) == \E i \in 1..Len(d) : d[i].key = k

KeyIndex(d, k) == CHOOSE i \in 1..Len(d) : d[i].key = k

\* data.get(k): None where the key is absent
FeedGet(d, k) == IF HasKey(d, k) THEN d[KeyIndex(d, k)].val ELSE DayScalar(Null)

(***************************************************************************)
(* Literals of server.py.                                                   *)
(***************************************************************************)
USE_LATEST_DATE ==
    <<"U", "S", "E", "_", "L", "A", "T", "E", "S", "T", "_",
      "D", "A", "T", "E">>

ERROR_KEY == <<"e", "r", "r", "o", "r">>

NA == <<"N", "/", "A">>

\* "=" * 40, lines 152 and 162
RuleWidth == 40

\* "-" * 20, line 160
FloorRuleWidth == 20

\* lines 25, 39, 42: the adapter's messages (the exception text of line 39
\* is part of the token)
MsgNoUrl == <<"Server configuration error: DATA_SOURCE_URL not set.">>

MsgFetchFailed == <<"Failed to fetch data from URL: <exception>">>

MsgParseFailed == <<"Failed to parse JSON response.">>

\* line 102
MsgNoData == <<"Error: no meal information found in the data source.">>

\* line 117: the text before and after the echoed input
MsgBadDateHead == <<"Error: the LLM called the tool with a wrong date format: '">>

MsgBadDateTail == <<"'. The YYYY-MM-DD format is required.">>

\* line 121
MsgNotFoundHead == <<"Error: no meal data for that date(">>

MsgNotFoundTail == <<").">>

\* line 131
MsgMalformedHead == <<"Error: data structure error. ">>

MsgMalformedTail == <<": the data is not a list.">>

\* line 148: "<date>e <floor>ui menu information is missing."
MsgNoMenuAt == <<"-e ">>

MsgNoMenuOf == <<"-ui ">>

MsgNoMenuTail == <<"no menu information.">>

\* lines 151, 155: the report's header and floor label
HeaderGlyph == <<"[calendar] ">>

HeaderCampus == <<" - Seoul campus ">>

HeaderTail == <<"meal menu [clipboard]", "\n">>

FloorGlyph == <<"[pin] ">>

(***************************************************************************)
(* GetMealMenuArgs.handle_date_input, lines 56-70.                          *)
(***************************************************************************)
\* v is the raw date input: None or a str
handle_date_input(v) ==
    LET value_str == IF v.t # "null" THEN Lower(Strip(Fmt(v))) ELSE <<>>
    IN  IF value_str = <<>> THEN USE_LATEST_DATE ELSE Fmt(v)

\* the validated arguments of one call
GetMealMenuArgs(date, floor) ==
    [date |-> handle_date_input(date), floor |-> floor]

(***************************************************************************)
(* fetch_data_from_url, lines 19-42.  src.status says how the request ends; *)
(* src.body is the JSON object the URL serves.                              *)
(***************************************************************************)
ErrorDict(msg) == <<[key |-> ERROR_KEY, val |-> DayScalar(Str(msg))]>>

fetch_data_from_url(src) ==
    CASE src.status = "nourl" -> ErrorDict(MsgNoUrl)
      [] src.status = "neterr" -> ErrorDict(MsgFetchFailed)
      [] src.status = "badjson" -> ErrorDict(MsgParseFailed)
      [] OTHER -> src.body

(***************************************************************************)
(* get_meal_menu, lines 89-163.                                             *)
(***************************************************************************)
\* What a call ends in: the return statement taken (path), whether the
\* returned value is a str and then its text; or the exception raised.
Returned(path, text) ==
    [path |-> path, str |-> TRUE, text |-> text, exc |-> ""]

ReturnedValue(path, v) ==
    [path |-> path, str |-> v.t = "str",
     text |-> IF v.t = "str" THEN v.s ELSE <<>>, exc |-> ""]

Raised(exc) == [path |-> "raise", str |-> FALSE, text |-> <<>>, exc |-> exc]

NotCalled == [path |-> "none", str |-> FALSE, text |-> <<>>, exc |-> ""]

\* line 144 with the line break kept after the comma
RECURSIVE NormalizeNameKeepsBreak(_)
NormalizeNameKeepsBreak(s) ==
    IF s = <<>> THEN <<>>
    ELSE (IF Head(s) = "\n" THEN <<",", "\n">> ELSE <<Head(s)>>)
         \o NormalizeNameKeepsBreak(Tail(s))

\* line 144: name.replace('\n', ', ')
RECURSIVE NormalizeName(_)
NormalizeName(s) ==
    IF s = <<>> THEN <<>>
    ELSE (IF Head(s) = "\n" THEN <<",", " ">> ELSE <<Head(s)>>)
         \o NormalizeName(Tail(s))

\* line 137, left of the comparison: target_floor and meal_floor
FilterApplies(target_floor, meal_floor) ==
    Truthy(target_floor) /\ Truthy(meal_floor)

\* line 137: the whole condition of the `continue` (meal_floor is a str)
SkipsMeal(target_floor, meal_floor) ==
    FilterApplies(target_floor, meal_floor)
        /\ Upper(target_floor.s) # Upper(meal_floor.s)

\* lines 140-145, the dict update: the bucket of meal_floor, made on first
\* use, gets a reference (the index i) to the entry
AddToBucket(st, meal_floor, i) ==
    IF \E k \in 1..Len(st.keys) : st.keys[k] = meal_floor
    THEN LET k == CHOOSE k \in 1..Len(st.keys) : st.keys[k] = meal_floor
         IN  [st EXCEPT !.buckets[k] = Append(@, i)]
    ELSE [st EXCEPT !.keys = Append(@, meal_floor),
                    !.buckets = Append(@, <<i>>)]

\* lines 134-145: one iteration of the loop over daily_data.  st.daily is
\* the day's list object (entries are written in place), st.keys and
\* st.buckets are meals_by_floor, st.exc the exception raised, if any.
LoopBody(st, i, target_floor) ==
    LET meal == st.daily[i]
        meal_floor == EntryGet(meal, "floor")
        name == EntryGetDefault(meal, "name", Str(NA))
    IN  IF meal.t # "dict"
        THEN [st EXCEPT !.exc = "AttributeError"]   \* line 134: no .get
        ELSE IF FilterApplies(target_floor, meal_floor) /\ meal_floor.t # "str"
        THEN [st EXCEPT !.exc = "AttributeError"]   \* line 137: no .upper
        ELSE IF SkipsMeal(target_floor, meal_floor)
        THEN st                                     \* line 138: continue
        ELSE IF name.t # "str"
        THEN [st EXCEPT !.exc = "AttributeError"]   \* line 144: no .replace
        ELSE AddToBucket(
                 [st EXCEPT !.daily[i].name = Str(NormalizeName(name.s))],
                 meal_floor, i)

RECURSIVE GroupLoop(_, _, _)
GroupLoop(st, i, target_floor) ==
    IF i > Len(st.daily) \/ st.exc # "" THEN st
    ELSE GroupLoop(LoopBody(st, i, target_floor), i + 1, target_floor)

\* a < b for two dict keys that Python can order
KeyLess(a, b) ==
    IF a.t = "str" THEN StrLess(a.s, b.s) ELSE IntOf(a.s) < IntOf(b.s)

\* whether sorted() of the items compares without TypeError: the tuples
\* differ in their first element, so only keys are compared
Comparable(keys) ==
    \/ Len(keys) <= 1
    \/ \A k \in 1..Len(keys) : keys[k].t = "str"
    \/ \A k \in 1..Len(keys) : keys[k].t = "num"

\* line 154: sorted(meals_by_floor.items()), as the positions of the keys
\* in ascending order
RECURSIVE SortedFrom(_, _)
SortedFrom(keys, left) ==
    IF left = {} THEN <<>>
    ELSE LET k == CHOOSE k \in left :
                      \A j \in left \ {k} : KeyLess(keys[k], keys[j])
         IN  <<k>> \o SortedFrom(keys, left \ {k})

\* line 154 without sorted(): the items in insertion order
UnsortedItems(keys) == [k \in 1..Len(keys) |-> k]

SortedItems(keys) == SortedFrom(keys, 1..Len(keys))

\* lines 157-159: one entry line
EntryLine(meal) ==
    <<" ", " ", "-", " ">> \o Fmt(EntryGetDefault(meal, "type", Str(NA)))
        \o <<":", " ">> \o Fmt(EntryGetDefault(meal, "name", Str(NA)))
        \o <<"\n">>

RECURSIVE EntryLines(_, _)
EntryLines(daily, bucket) ==
    IF bucket = <<>> THEN <<>>
    ELSE EntryLine(daily[Head(bucket)]) \o EntryLines(daily, Tail(bucket))

\* lines 155-160: the sections of the floors in `order`
RECURSIVE FloorSections(_, _)
FloorSections(st, order) ==
    IF order = <<>> THEN <<>>
    ELSE FloorGlyph \o Fmt(st.keys[Head(order)]) \o <<"\n">>
         \o EntryLines(st.daily, st.buckets[Head(order)])
         \o Rep("-", FloorRuleWidth) \o <<"\n">>
         \o FloorSections(st, Tail(order))

\* lines 150-152
Header(date_str, day_of_week, target_floor) ==
    HeaderGlyph \o date_str \o <<" ", "(">> \o <<day_of_week>> \o <<")">>
        \o HeaderCampus
        \o (IF Truthy(target_floor) THEN target_floor.s \o <<" ">> ELSE <<>>)
        \o HeaderTail \o Rep("=", RuleWidth) \o <<"\n">>

\* lines 150-163
Render(st, date_str, day_of_week, target_floor) ==
    Header(date_str, day_of_week, target_floor)
        \o FloorSections(st, SortedItems(st.keys))
        \o Rep("=", RuleWidth)

\* line 148
NoMenuText(date_str, target_floor) ==
    date_str \o MsgNoMenuAt
        \o (IF Truthy(target_floor) THEN target_floor.s \o MsgNoMenuOf ELSE <<>>)
        \o MsgNoMenuTail

\* lines 119-163 for the list daily_data at position p of the feed dat:
\* [out, data] with data the feed as the loop leaves it
FormatDay(dat, p, date_str, day_of_week, target_floor) ==
    LET st0 == [daily |-> dat[p].val.items, keys |-> <<>>,
                buckets |-> <<>>, exc |-> ""]
        st == GroupLoop(st0, 1, target_floor)
        dat2 == [dat EXCEPT ![p].val.items = st.daily]
    IN  IF st.exc # "" THEN [out |-> Raised(st.exc), data |-> dat2]
        ELSE IF st.keys = <<>>
        THEN [out |-> Returned("NoMatchingEntries",
                               NoMenuText(date_str, target_floor)),
              data |-> dat2]
        ELSE IF ~Comparable(st.keys)
        THEN [out |-> Raised("TypeError"), data |-> dat2]
        ELSE [out |-> Returned("Report",
                               Render(st, date_str, day_of_week, target_floor)),
              data |-> dat2]

\* line 105 taking the last key of the dict
LastKey(dat) == dat[Len(dat)].key

\* line 105: next(iter(data.keys()), None) of a non-empty dict
FirstKey(dat) == dat[1].key

\* lines 97-109: the date looked up
ResolveDate(dat, args) ==
    IF args.date = USE_LATEST_DATE THEN FirstKey(dat) ELSE args.date

\* lines 92-163 with data the dict fetch_data_from_url returned:
\* [out, data]
get_meal_menu(dat, args) ==
    IF HasKey(dat, ERROR_KEY)
    THEN [out |-> ReturnedValue("AdapterError", FeedGet(dat, ERROR_KEY)),
          data |-> dat]
    ELSE IF args.date = USE_LATEST_DATE /\ dat = <<>>
    THEN [out |-> Returned("NoDataAvailable", MsgNoData), data |-> dat]
    ELSE
      LET date_str == ResolveDate(dat, args)
          date_obj == StrpTime(date_str)
          daily_data == FeedGet(dat, date_str)
      IN  IF ~date_obj.ok
          THEN [out |-> Returned("InvalidDateFormat",
                                 MsgBadDateHead \o args.date \o MsgBadDateTail),
                data |-> dat]
          ELSE IF ~DayTruthy(daily_data)
          THEN [out |-> Returned("DateNotFound",
                                 MsgNotFoundHead \o date_str \o MsgNotFoundTail),
                data |-> dat]
          ELSE IF daily_data.t # "list"
          THEN [out |-> Returned("MalformedFeed",
                                 MsgMalformedHead \o date_str \o MsgMalformedTail),
                data |-> dat]
          ELSE FormatDay(dat, KeyIndex(dat, date_str), date_str,
                         DayNames[Weekday(date_obj.y, date_obj.m, date_obj.d) + 1],
                         args.floor)

(***************************************************************************)
(* The inputs explored.                                                     *)
(***************************************************************************)
D1 == <<"2", "0", "2", "5", "-", "1", "0", "-", "2", "3">>

D2 == <<"2", "0", "2", "5", "-", "1", "0", "-", "2", "4">>

D3 == <<"2", "0", "2", "5", "-", "1", "-", "5">>

BadMonthDay == <<"2", "0", "2", "5", "-", "1", "3", "-", "4", "0">>

Tomorrow == <<"t", "o", "m", "o", "r", "r", "o", "w">>

\* raw date inputs: None, "", " ", dates, and text that is no date
DateInputs ==
    {Null, Str(<<>>), Str(<<" ">>), Str(D1), Str(D2), Str(D3),
     Str(BadMonthDay), Str(Tomorrow), Str(USE_LATEST_DATE)}

\* floor arguments: None or a str
FloorInputs ==
    {Null, Str(<<>>), Str(<<"2", "0", "f">>), Str(<<"1", "0", "F">>)}

F10 == Str(<<"1", "0", "F">>)

F20 == Str(<<"2", "0", "F">>)

\* list items a feed may hold
Entries ==
    {Record(F10, Str(<<"L">>), Str(<<"R", "\n", "S">>)),
     Record(F20, Str(<<"L">>), Str(<<"N">>)),
     Record(Absent, Null, Str(<<"K">>)),
     Record(F20, Absent, Absent),
     Record(F10, Str(<<"D">>), Null),
     Record(Num(<<"5">>), Str(<<"D">>), Str(<<"K">>)),
     Record(Num(<<"1", "0">>), Str(<<"D">>), Str(<<"K">>)),
     NonRecord}

\* values of a date key that are no list
Scalars == {DayScalar(Null), DayScalar(Num(<<"5">>))}

FeedKeys == {D1, D3, ERROR_KEY}

ListsUpTo(n) == UNION {[1..k -> Entries] : k \in 0..n}

DayValues(n) == Scalars \cup {DayList(l) : l \in ListsUpTo(n)}

\* the JSON nodes of a date's value: the key and the entries of its list
Weight(v) == 1 + Len(v.items)

\* the feeds with distinct keys from `keys` and at most `budget` nodes
RECURSIVE FeedsOver(_, _)
FeedsOver(keys, budget) ==
    IF budget < 1 THEN {<<>>}
    ELSE {<<>>} \cup
         UNION {UNION {{<<[key |-> k, val |-> v]>> \o rest :
                           rest \in FeedsOver(keys \ {k}, budget - Weight(v))} :
                       v \in DayValues(budget - 1)} :
                k \in keys}

Feeds == FeedsOver(FeedKeys, MaxSize)

Sources ==
    {[status |-> "ok", body |-> f] : f \in Feeds}
        \cup {[status |-> s, body |-> <<>>] : s \in {"nourl", "neterr", "badjson"}}

NoQuery == [called |-> FALSE, date |-> Null, floor |-> Null]

(***************************************************************************)
(* The state machine.                                                       *)
(***************************************************************************)
Init ==
    /\ upstream \in Sources
    /\ query = NoQuery
    /\ out = NotCalled
    /\ prev = NotCalled
    /\ before = <<>>

\* One call of the tool get_meal_menu (lines 89-163) with raw arguments
\* date and floor: validation, fetch, lookup, grouping and rendering.
GetMealMenu(date, floor) ==
    LET q == [called |-> TRUE, date |-> date, floor |-> floor]
        dat == fetch_data_from_url(upstream)
        r == get_meal_menu(dat, GetMealMenuArgs(date, floor))
    IN  /\ query \in {NoQuery, q}
        /\ query' = q
        /\ before' = dat
        /\ out' = r.out
        /\ prev' = out
        /\ upstream' = IF upstream.status = "ok"
                       THEN [upstream EXCEPT !.body = r.data]
                       ELSE upstream

Next == \E date \in DateInputs, floor \in FloorInputs : GetMealMenu(date, floor)

Spec == Init /\ [][Next]_vars

(***************************************************************************)
(* Vocabulary of the properties.                                            *)
(***************************************************************************)
Called == query.called

\* the validated arguments of the calls made
Args == GetMealMenuArgs(query.date, query.floor)

\* the call got a feed from the adapter: a dict without the "error" key
GotFeed == Called /\ upstream.status = "ok" /\ ~HasKey(before, ERROR_KEY)

WantsLatest == Args.date = USE_LATEST_DATE

\* the date the call looks up, where there is one
Resolved ==
    IF ~WantsLatest THEN Args.date
    ELSE IF before = <<>> THEN <<>>
    ELSE before[1].key

\* s is YYYY-MM-DD, two-digit month and day, and a day of the calendar
IsCalendarDate(s) ==
    /\ Len(s) = 10
    /\ \A i \in {1, 2, 3, 4, 6, 7, 9, 10} : IsDigit(s[i])
    /\ s[5] = "-" /\ s[8] = "-"
    /\ LET y == IntOf(SubSeq(s, 1, 4))
           m == IntOf(SubSeq(s, 6, 7))
           d == IntOf(SubSeq(s, 9, 10))
       IN  y >= 1 /\ m \in 1..12 /\ d >= 1 /\ d <= DaysInMonth(y, m)

StartsWith(text, head) ==
    Len(text) >= Len(head) /\ SubSeq(text, 1, Len(head)) = head

\* the text from position i up to the next line break
LineFrom(text, i) ==
    LET e == CHOOSE j \in i..(Len(text) + 1) :
                 /\ j = Len(text) + 1 \/ text[j] = "\n"
                 /\ \A k \in i..(j - 1) : text[k] # "\n"
    IN  SubSeq(text, i, e - 1)

\* the floor labels of a report, in the order of their sections
FloorLabels(text) ==
    LET at == {i \in 1..Len(text) : text[i] = FloorGlyph[1]}
        Nth(n) == CHOOSE i \in at : Cardinality({j \in at : j < i}) = n - 1
    IN  [n \in 1..Cardinality(at) |-> LineFrom(text, Nth(n) + 1)]

\* the day list the call looked up, as the call found it
DayBefore == FeedGet(before, Resolved)

\* the same day list as the call left it
DayAfter == FeedGet(upstream.body, Resolved)

(***************************************************************************)
(* Properties.                                                              *)
(***************************************************************************)
\* C1: get_meal_menu always returns a string and never raises: whatever
\* JSON values the feed's date keys map to, and whatever the date and floor
\* arguments, the call ends in a returned str (a report or an error string).
C1_AlwaysReturnsString ==
    GotFeed => (out.path # "raise" /\ out.str)

\* C2: formatting leaves the feed unchanged: after get_meal_menu returns,
\* the feed object it was given holds the same entries, with the same floor,
\* type and name values, as before the call.
C2_FeedUnchanged ==
    GotFeed => upstream.body = before

\* C10: the adapter-error return is taken exactly when the adapter returned
\* an Error, and then returns the adapter's message verbatim; a feed,
\* whatever its keys, is never answered through that return.
C10_ShortCircuitIffAdapterError ==
    Called =>
        /\ (out.path = "AdapterError") <=> (upstream.status # "ok")
        /\ upstream.status # "ok" =>
               (out.str /\ out.text = fetch_data_from_url(upstream)[1].val.s)

\* C5: a date string from the caller that is not the latest marker and is
\* no YYYY-MM-DD calendar date gets the InvalidDateFormat error string with
\* the input in it, whatever the feed holds.
C5_MalformedDateRejected ==
    (GotFeed /\ ~WantsLatest /\ ~IsCalendarDate(Args.date)) =>
        /\ out.path = "InvalidDateFormat"
        /\ out.text = MsgBadDateHead \o query.date.s \o MsgBadDateTail

\* C8: for a valid date whose key is in the feed, a value that is no list,
\* or a list with an item that is no record, gets the MalformedFeed error
\* string.
C8_NonSequenceIsMalformed ==
    (/\ GotFeed
     /\ IsCalendarDate(Resolved)
     /\ HasKey(before, Resolved)
     /\ \/ DayBefore.t # "list"
        \/ \E i \in 1..Len(DayBefore.items) : DayBefore.items[i].t # "dict")
    => out.path = "MalformedFeed"

\* whether an entry's floor equals the filter, ignoring case
MatchesFloor(meal, floor) ==
    /\ meal.t = "dict"
    /\ meal.floor.t = "str"
    /\ Upper(meal.floor.s) = Upper(floor.s)

\* C4: with a floor filter set, a report holds exactly the day's entries
\* whose floor equals the filter ignoring case: it is the report of the day
\* with every other entry (floor different, or missing) taken out.
C4_FilterExactMatch ==
    (GotFeed /\ Truthy(Args.floor) /\ out.path = "Report") =>
        LET Keep(meal) == MatchesFloor(meal, Args.floor)
            only == <<[key |-> Resolved,
                       val |-> DayList(SelectSeq(DayBefore.items, Keep))]>>
        IN  out = get_meal_menu(only, [date |-> Resolved,
                                       floor |-> Args.floor]).out

\* C3: grouping and rendering is idempotent: a second call with the same
\* date and floor on the same feed object, which sees what the first call
\* wrote into the feed, ends exactly as the first did (the same text, token
\* for token; where the call raises, the same exception).
C3_Idempotent ==
    prev.path # "none" => out = prev

\* a second report, equal to the first, of a day whose name held a line
\* break that the first call rewrote in the feed
C3_Witness ==
    /\ prev.path = "Report"
    /\ out.path = "Report"
    /\ Contains(out.text, <<"R", ",", " ", "S">>)
    /\ \E i \in 1..Len(DayAfter.items) :
           DayAfter.items[i].name = Str(<<"R", ",", " ", "S">>)

\* C6: with the latest marker (no date, an empty or a blank date), a
\* non-empty feed is looked up at its first key in insertion order, which
\* the report header shows; an empty feed gets the NoDataAvailable string.
C6_LatestIsFirstKey ==
    (GotFeed /\ WantsLatest) =>
        IF before = <<>>
        THEN out.path = "NoDataAvailable" /\ out.text = MsgNoData
        ELSE LET k == before[1].key
                 asked == get_meal_menu(before, [date |-> k,
                                                 floor |-> Args.floor]).out
             IN  /\ out.path # "NoDataAvailable"
                 /\ out.path = "Report" =>
                        StartsWith(out.text, HeaderGlyph \o k \o <<" ", "(">>)
                 /\ out.path = "DateNotFound" =>
                        out.text = MsgNotFoundHead \o k \o MsgNotFoundTail
                 /\ out.path # "InvalidDateFormat" => out = asked

\* an empty date input, a feed of two dates: the report is the first's
C6_Witness ==
    /\ GotFeed
    /\ query.date = Str(<<>>)
    /\ Len(before) = 2
    /\ before[1].key = D1
    /\ before[2].key = D3
    /\ out.path = "Report"
    /\ StartsWith(out.text,
                  HeaderGlyph \o D1 \o <<" ", "(", "(Thu-yoil)", ")">>)

\* the floor keys of the entries the call keeps
RetainedKeys ==
    {EntryGet(DayBefore.items[i], "floor") :
        i \in {j \in 1..Len(DayBefore.items) :
                 ~SkipsMeal(Args.floor, EntryGet(DayBefore.items[j], "floor"))}}

\* C7: the floor sections of a report are in ascending lexicographic order
\* of their floor key, one section for each floor key that has an entry in
\* the report, whatever the order of the floors in the day's list.  (The
\* order is that of str keys; keys that are JSON numbers are no strings and
\* have no lexicographic order.)
C7_FloorsAscending ==
    out.path = "Report" =>
        LET labels == FloorLabels(out.text)
        IN  /\ (\A k \in RetainedKeys : k.t = "str") =>
                   \A i \in 1..(Len(labels) - 1) :
                       StrLess(labels[i], labels[i + 1])
            /\ {labels[i] : i \in 1..Len(labels)} = {Fmt(k) : k \in RetainedKeys}
            /\ Len(labels) = Cardinality(RetainedKeys)

\* a day that lists 20F before 10F is reported 10F first
C7_Witness ==
    /\ out.path = "Report"
    /\ Len(DayBefore.items) = 2
    /\ DayBefore.items[1].floor = F20
    /\ DayBefore.items[2].floor = F10
    /\ FloorLabels(out.text) = <<F10.s, F20.s>>

\* the filter excludes the entry: its floor is a str other than the
\* filter, ignoring case
ExcludedByFilter(meal, floor) ==
    /\ meal.t = "dict"
    /\ meal.floor.t = "str"
    /\ meal.floor.s # <<>>
    /\ Upper(meal.floor.s) # Upper(floor.s)

\* C9: for a valid date, an absent key or an empty list gets the
\* DateNotFound string with the date in it; a non-empty list whose entries
\* the floor filter all excludes gets the NoMatchingEntries string, which is
\* another string; and a report has at least one floor section with an
\* entry.
C9_NoMatchIsNotDateNotFound ==
    GotFeed =>
        /\ (/\ IsCalendarDate(Resolved)
            /\ \/ ~HasKey(before, Resolved)
               \/ DayBefore = DayList(<<>>))
           => (/\ out.path = "DateNotFound"
               /\ out.text = MsgNotFoundHead \o Resolved \o MsgNotFoundTail)
        /\ (/\ IsCalendarDate(Resolved)
            /\ DayBefore.t = "list"
            /\ DayBefore.items # <<>>
            /\ Truthy(Args.floor)
            /\ \A i \in 1..Len(DayBefore.items) :
                   ExcludedByFilter(DayBefore.items[i], Args.floor))
           => (/\ out.path = "NoMatchingEntries"
               /\ out.text = NoMenuText(Resolved, Args.floor)
               /\ out.text # MsgNotFoundHead \o Resolved \o MsgNotFoundTail)
        /\ out.path = "Report"
           => (/\ FloorLabels(out.text) # <<>>
               /\ \E i \in 1..Len(DayAfter.items) :
                      Contains(out.text, EntryLine(DayAfter.items[i])))

\* a day with entries on 10F only, asked for 20f
C9_Witness ==
    /\ GotFeed
    /\ Resolved = D1
    /\ Args.floor = Str(<<"2", "0", "f">>)
    /\ DayBefore.items # <<>>
    /\ out.path = "NoMatchingEntries"

====
